---- MODULE Spec2Model ----
(***************************************************************************)
(* Model of modmod's Track::render (src/modmod/src/types.rs): the build    *)
(* that loads a track, its modules and topics, creates the numbered output *)
(* directories, aggregates the topics of every unit into the unit          *)
(* template, copies the glob-selected exercise files and renders the book. *)
(*                                                                         *)
(* Text is a sequence of one-character strings, a path a sequence of       *)
(* component names.  The source tree is a fixed small course whose track   *)
(* file, and the template, one slide file and one objectives list of its   *)
(* module mod_c, are inputs chosen by Init; the output directory is state. *)
(***************************************************************************)
EXTENDS Integers, Sequences, FiniteSets, TLC

VARIABLES
    trackModules,     \* input: Track.modules of course/track.toml
    excludedTopics,   \* input: Track.excluded_topics of course/track.toml
    defect,           \* input: what is wrong with the source tree, if anything
    templateC,        \* input: text of course/mod_c/template.md
    slidesT5,         \* input: text of course/mod_c/t5/slides.md
    objectivesT5,     \* input: Topic.objectives of course/mod_c/t5/topic.toml
    outExists,        \* the output directory exists
    outTree,          \* its entries: relative path -> [kind, data]
    outBook,          \* what the book engine rendered into it
    pc,               \* position of the caller / of render
    run,              \* number of render calls so far
    clear_output,     \* argument of the running call
    result,           \* what render returned
    track,            \* PathTo<Track> (render: track)
    modules,          \* track.load_modules()
    i_mod,
    units,            \* module.load_topics()
    i_unit,
    template,
    topic_content,
    topic_objectives,
    topic_summary,
    i_topic,
    i_exercise,
    pending,          \* matched files of the exercise not yet copied
    book,             \* book_builder: chapters added
    chapter,          \* chapter builder: [title, sections]
    section,          \* section builder: [title, subsections]
    reads,            \* source paths dereferenced by this call
    tagged,           \* numbered tags given by this call, in order
    prevOut           \* output left by the previous call

inputs == <<trackModules, excludedTopics, defect, templateC, slidesT5, objectivesT5>>
output == <<outExists, outTree, outBook>>
loops == <<track, modules, i_mod, units, i_unit, i_topic, i_exercise, pending>>
aggregates == <<template, topic_content, topic_objectives, topic_summary>>
builder == <<book, chapter, section>>
call == <<run, clear_output, prevOut>>
vars == <<inputs, output, pc, result, loops, aggregates, builder, call, reads, tagged>>

-----------------------------------------------------------------------------
(* Bounds of the model *)

MaxModules == 2
MaxRuns == 2
MaxTemplateChunks == 2

-----------------------------------------------------------------------------
(* Text *)

ContentMarker == <<"#","[","m","o","d","m","o","d",":","c","o","n","t","e","n","t","]","\n">>
ObjectivesMarker == <<"#","[","m","o","d","m","o","d",":","o","b","j","e","c","t","i","v","e","s","]">>
SummaryMarker == <<"#","[","m","o","d","m","o","d",":","s","u","m","m","a","r","y","]">>
Rule == <<"-","-","-","\n","\n">>
Newline == <<"\n">>
Bullet == <<"-"," ">>

IsWhitespace(c) == c \in {" ", "\n", "\t"}

RECURSIVE TrimStart(_)
TrimStart(s) ==
    IF s # <<>> /\ IsWhitespace(Head(s)) THEN TrimStart(Tail(s)) ELSE s

RECURSIVE TrimEnd(_)
TrimEnd(s) ==
    IF s # <<>> /\ IsWhitespace(s[Len(s)]) THEN TrimEnd(SubSeq(s, 1, Len(s) - 1)) ELSE s

\* str::trim
Trim(s) == TrimEnd(TrimStart(s))

StartsWith(s, p) == Len(p) <= Len(s) /\ SubSeq(s, 1, Len(p)) = p

\* str::replace: every non-overlapping match of from, left to right
RECURSIVE Replace(_, _, _)
Replace(s, from, to) ==
    IF s = <<>> THEN <<>>
    ELSE IF StartsWith(s, from)
         THEN to \o Replace(SubSeq(s, Len(from) + 1, Len(s)), from, to)
         ELSE <<Head(s)>> \o Replace(Tail(s), from, to)

Contains(s, p) == \E i \in 1..(Len(s) - Len(p) + 1) : SubSeq(s, i, i + Len(p) - 1) = p

RECURSIVE Concat(_)
Concat(ss) == IF ss = <<>> THEN <<>> ELSE Head(ss) \o Concat(Tail(ss))

-----------------------------------------------------------------------------
(* Paths *)

\* Path::join, for a relative second path
Join(base, rel) == base \o rel

\* Path::parent
Parent(p) == SubSeq(p, 1, Len(p) - 1)

IsPrefix(p, q) == Len(p) <= Len(q) /\ SubSeq(q, 1, Len(p)) = p

\* Path::strip_prefix
StripPrefix(p, prefix) == SubSeq(p, Len(prefix) + 1, Len(p))

-----------------------------------------------------------------------------
(* Defaults of the config records *)

topic_slides_md == <<"slides.md">>
unit_template_md == <<"template.md">>
exercise_description_md == <<"description.md">>
\* include patterns, split at the separators
exercise_includes == << <<"Cargo.toml">>, <<"Cargo.lock">>, <<"src", "*", "**">> >>

-----------------------------------------------------------------------------
(* The source tree *)

\* the path render is called with, relative to the working directory
TrackPath == <<"course", "track.toml">>

ModARef == <<"mod_a", "module.toml">>
ModBRef == <<"mod_b", "module.toml">>
ModCRef == <<"mod_c", "module.toml">>
ModAPath == <<"course", "mod_a", "module.toml">>
ModBPath == <<"course", "mod_b", "module.toml">>
ModCPath == <<"course", "mod_c", "module.toml">>
T1Path == <<"course", "mod_a", "t1", "topic.toml">>
T2Path == <<"course", "mod_a", "t2", "topic.toml">>
T3Path == <<"course", "mod_a", "t3", "topic.toml">>
T4Path == <<"course", "mod_b", "t4", "topic.toml">>
T5Path == <<"course", "mod_c", "t5", "topic.toml">>
T6Path == <<"course", "mod_c", "t6", "topic.toml">>
TemplateCPath == <<"course", "mod_c", "template.md">>
SlidesT5Path == <<"course", "mod_c", "t5", "slides.md">>
TemplateAPath == <<"course", "mod_a", "template.md">>
SlidesT1Path == <<"course", "mod_a", "t1", "slides.md">>
ExT1Dir == <<"course", "mod_a", "t1", "ex">>

NoDefect == [kind |-> "none", path |-> <<>>]
BadGlob == [kind |-> "badglob", path |-> <<>>]
Absent(p) == [kind |-> "absent", path |-> p]

SrcFiles ==
    { <<"template.md">>, <<"slides.md">>,
      TrackPath, <<"course", "template.md">>, <<"course", "slides.md">>,
      ModAPath, TemplateAPath, <<"course", "mod_a", "tpl", "alt.md">>,
      <<"course", "mod_a", "slides.md">>,
      T1Path, SlidesT1Path,
      <<"course", "mod_a", "t1", "ex", "description.md">>,
      <<"course", "mod_a", "t1", "ex", "notes.txt">>,
      <<"course", "mod_a", "t1", "ex", "sub", "notes.txt">>,
      <<"course", "mod_a", "t1", "ex", "secret.key">>,
      T2Path, <<"course", "mod_a", "t2", "slides.md">>,
      <<"course", "mod_a", "t2", "ex", "Cargo.toml">>,
      <<"course", "mod_a", "t2", "ex", "src", "main.rs">>,
      <<"course", "mod_a", "t2", "ex", "src", "bin", "x.rs">>,
      T3Path, <<"course", "mod_a", "t3", "slides.md">>,
      ModBPath, <<"course", "mod_b", "template.md">>,
      T4Path, <<"course", "mod_b", "t4", "slides.md">>,
      <<"course", "mod_b", "t4", "ex1", "a.txt">>,
      <<"course", "mod_b", "t4", "ex2", "a.txt">>,
      <<"course", "mod_b", "t4", "ex2", "b.md">>,
      ModCPath, TemplateCPath, T5Path, SlidesT5Path,
      T6Path, <<"course", "mod_c", "t6", "slides.md">> }

Gone(p) == defect.kind = "absent" /\ IsPrefix(defect.path, p)

FileExists(p) == p \in SrcFiles /\ ~Gone(p)

DirExists(d) == \E f \in SrcFiles : Len(d) < Len(f) /\ IsPrefix(d, f) /\ ~Gone(f)

\* names ending in ".txt"
TxtNames == {"notes.txt", "a.txt"}

\* fs::read_to_string; any other file holds bytes of its own, named by its path
FileText(p) ==
    CASE p = TemplateCPath -> templateC
      [] p = SlidesT5Path -> slidesT5
      [] p = TemplateAPath ->
           <<"T","\n">> \o ContentMarker \o ObjectivesMarker \o Newline \o SummaryMarker
      [] p = SlidesT1Path -> <<" ","s","1","\n">>
      [] p = <<"course", "mod_c", "t6", "slides.md">> -> <<"s","6","\n","\n">>
      [] p = <<"template.md">> -> <<"C","W","D","\n">> \o ContentMarker
      [] p = <<"course", "template.md">> -> <<"R","O","O","T","\n">> \o ContentMarker
      [] p = <<"course", "mod_a", "tpl", "alt.md">> -> ContentMarker \o <<"E">> \o SummaryMarker
      [] p = <<"course", "mod_b", "template.md">> -> ObjectivesMarker \o ContentMarker
      [] p = <<"course", "mod_a", "t2", "slides.md">> -> <<"s","2">>
      [] p = <<"course", "mod_a", "t3", "slides.md">> -> <<"\n","s","3"," ">>
      [] p = <<"course", "mod_b", "t4", "slides.md">> -> <<"s","4","\n">>
      [] OTHER -> p

TrackFile == [name |-> "Rust", modules |-> trackModules, excluded_topics |-> excludedTopics]

ModuleFile(p) ==
    IF p = ModAPath
    THEN [name |-> "Basics", description |-> "first",
          units |-> << [name |-> "Intro", template |-> unit_template_md,
                        topics |-> << <<"t1", "topic.toml">>, <<"t2", "topic.toml">> >>],
                       [name |-> "Intro", template |-> <<"tpl", "alt.md">>,
                        topics |-> << <<"t3", "topic.toml">> >>] >>]
    ELSE IF p = ModBPath
    THEN [name |-> "basics", description |-> "second",
          units |-> << [name |-> "Adv", template |-> unit_template_md,
                        topics |-> << <<"t4", "topic.toml">> >>] >>]
    ELSE [name |-> "Texts", description |-> "third",
          units |-> << [name |-> "Adv", template |-> unit_template_md,
                        topics |-> << <<"t5", "topic.toml">>, <<"t6", "topic.toml">> >>] >>]

TopicFile(p) ==
    CASE p = T1Path ->
           [name |-> "Vars", content |-> topic_slides_md,
            objectives |-> << <<"A">> >>, summary |-> <<>>,
            exercises |-> << [name |-> "Hello", path |-> <<"ex">>,
                              description |-> exercise_description_md,
                              includes |-> << <<"*.txt">> >>] >>]
      [] p = T2Path ->
           [name |-> "Fns", content |-> topic_slides_md,
            objectives |-> <<>>, summary |-> << <<" ","B"," ">> >>,
            exercises |-> << [name |-> "Hello", path |-> <<"ex">>,
                              description |-> exercise_description_md,
                              includes |-> exercise_includes] >>]
      [] p = T3Path ->
           [name |-> "Loops", content |-> topic_slides_md,
            objectives |-> << <<"C">> >>, summary |-> << <<"D">> >>,
            exercises |-> <<>>]
      [] p = T5Path ->
           [name |-> "Text", content |-> topic_slides_md,
            objectives |-> objectivesT5, summary |-> << <<"S"," ">> >>,
            exercises |-> <<>>]
      [] p = T6Path ->
           [name |-> "More", content |-> topic_slides_md,
            objectives |-> <<>>, summary |-> <<>>,
            exercises |-> <<>>]
      [] OTHER ->
           [name |-> "Traits", content |-> topic_slides_md,
            objectives |-> << <<"E">> >>, summary |-> <<>>,
            exercises |-> << [name |-> "One", path |-> <<"ex1">>,
                              description |-> exercise_description_md,
                              includes |-> << <<"*">> >>],
                             [name |-> "One", path |-> <<"ex2">>,
                              description |-> exercise_description_md,
                              includes |-> IF defect.kind = "badglob"
                                           THEN << <<"[">> >>
                                           ELSE << <<"a.txt">> >>] >>]

-----------------------------------------------------------------------------
(* Collaborators outside types.rs *)

\* Load::load(path, base): the record of the file at base/path, with that path
LoadPath(path, base) == Join(base, path)

\* name normalisation of a numbered tag
Normalize(name) ==
    CASE name = "Basics" -> "basics"
      [] name = "Intro" -> "intro"
      [] name = "Hello" -> "hello"
      [] name = "One" -> "one"
      [] name = "Adv" -> "adv"
      [] name = "Texts" -> "texts"
      [] OTHER -> name

\* to_numbered_tag(name, i): zero-padded 1-based index, then the normalised name
to_numbered_tag(name, i) ==
    (IF i < 10 THEN "0" ELSE "") \o ToString(i) \o "-" \o Normalize(name)

\* fs_extra::dir::get_dir_content(dir).files
DirFiles(dir) == {f \in SrcFiles : Len(dir) < Len(f) /\ IsPrefix(dir, f) /\ ~Gone(f)}

\* Glob::new fails on an unclosed character class
GlobValid(pat) == \A k \in 1..Len(pat) : pat[k] # "["

\* globset matching with its default options, where "*" also matches separators:
\* a "*" or a trailing "**" between separators spans one or more whole components,
\* "*.txt" spans components up to one ending in ".txt"
RECURSIVE GlobMatches(_, _)
GlobMatches(pat, path) ==
    IF pat = <<>> THEN path = <<>>
    ELSE IF Head(pat) \in {"*", "**"}
         THEN \E k \in 1..Len(path) :
                  GlobMatches(Tail(pat), SubSeq(path, k + 1, Len(path)))
    ELSE IF Head(pat) = "*.txt"
         THEN \E k \in 1..Len(path) :
                  /\ path[k] \in TxtNames
                  /\ GlobMatches(Tail(pat), SubSeq(path, k + 1, Len(path)))
    ELSE /\ path # <<>>
         /\ Head(path) = Head(pat)
         /\ GlobMatches(Tail(pat), Tail(path))

\* GlobSet::is_match
GlobSetMatches(globset, path) == \E k \in 1..Len(globset) : GlobMatches(globset[k], path)

-----------------------------------------------------------------------------
(* The output directory *)

EmptyTree == <<>>
NoBook == [present |-> FALSE, chapters |-> <<>>]
DirEntry == [kind |-> "dir", data |-> <<>>]
FileEntry(data) == [kind |-> "file", data |-> data]

\* faulty variant: only a rendered book counts as an entry
HasEntries_BookOnly == outBook.present

\* fs::read_dir(output_dir).next() is Some
HasEntries == outTree # EmptyTree \/ outBook.present

\* fs::create_dir succeeds: the path is new and its parent is a directory
CanCreateDir(tree, p) ==
    /\ p \notin DOMAIN tree
    /\ Len(p) > 1 => (Parent(p) \in DOMAIN tree /\ tree[Parent(p)].kind = "dir")

CreateDir(tree, p) == (p :> DirEntry) @@ tree

Prefixes(p) == {SubSeq(p, 1, k) : k \in 1..Len(p)}

\* fs::create_dir_all succeeds: no component of the path is a file
CanCreateDirAll(tree, p) ==
    \A q \in Prefixes(p) : q \in DOMAIN tree => tree[q].kind = "dir"

CreateDirAll(tree, p) == [q \in DOMAIN tree \cup Prefixes(p) |->
                             IF q \in DOMAIN tree THEN tree[q] ELSE DirEntry]

\* fs::copy and File::create + write: the file is created or overwritten
WriteFile(tree, p, data) == (p :> FileEntry(data)) @@ tree

-----------------------------------------------------------------------------
(* The book builder (book.rs) *)

NoChapter == [title |-> "", sections |-> <<>>]
NoSection == [title |-> "", subsections |-> <<>>]
NewChapter(title) == [title |-> title, sections |-> <<>>]
NewSection(title) == [title |-> title, subsections |-> <<>>]
AddSubsection(sec, title, content) ==
    [sec EXCEPT !.subsections = Append(@, [title |-> title, content |-> content])]
AddSection(chap, sec) == [chap EXCEPT !.sections = Append(@, sec)]
AddChapter(b, chap) == Append(b, chap)
\* Book::render(output_dir)
RenderedBook(b) == [present |-> TRUE, chapters |-> b]

-----------------------------------------------------------------------------
(* render: the values it computes *)

NoTrack == [path |-> <<>>, data |-> [name |-> "", modules |-> <<>>, excluded_topics |-> <<>>]]

CurModule == modules[i_mod]
CurUnit == units[i_unit].unit
CurTopics == units[i_unit].topics
CurTopic == CurTopics[i_topic]
CurExercise == CurTopic.data.exercises[i_exercise]

\* load_modules: base_path = path.parent()
ModuleBase(t) == Parent(t.path)

\* load_topics: base_path = path.parent()
TopicBase(m) == Parent(m.path)

\* faulty variant: the template is looked up from the working directory
TemplatePath_Cwd(m, u) == u.template

\* module.path.parent().join(&unit.template)
TemplatePath(m, u) == Join(Parent(m.path), u.template)

\* topic.path.parent().join(&topic.data.content)
SlidesPath(t) == Join(Parent(t.path), t.data.content)

\* topic.path.parent().join(&exercise.path)
ExerciseDir(t, e) == Join(Parent(t.path), e.path)

\* exercise_dir.join(&exercise.description)
DescriptionPath(t, e) == Join(ExerciseDir(t, e), e.description)

\* exercise_dir.join(include)
IncludePattern(t, e, include) == Join(ExerciseDir(t, e), include)

\* the GlobSet of an exercise
ExerciseGlobSet(t, e) == [k \in 1..Len(e.includes) |-> IncludePattern(t, e, e.includes[k])]

ModuleTag(m, i) == to_numbered_tag(m.data.name, i)
UnitTag(u, i) == to_numbered_tag(u.name, i)
ExerciseTag(e, i) == to_numbered_tag(e.name, i)

ModuleOutDir == <<ModuleTag(CurModule, i_mod)>>
UnitOutDir == Join(ModuleOutDir, <<UnitTag(CurUnit, i_unit)>>)
ExerciseOutDir == Join(UnitOutDir, <<"exercises">>)

\* faulty variant: the file name alone, without its directories
FileRelative_FileName(file, exercise_dir) == <<file[Len(file)]>>

\* Path::new(&included_file).strip_prefix(&exercise_dir)
FileRelative(file, exercise_dir) == StripPrefix(file, exercise_dir)

\* exercise_out_dir.join(&exercise_tag).join(file_relative)
Dest(file) ==
    Join(Join(ExerciseOutDir, <<ExerciseTag(CurExercise, i_exercise)>>),
         FileRelative(file, ExerciseDir(CurTopic, CurExercise)))

\* faulty variant: the topic is put before the content gathered so far
AppendContent_Prepend(content, topic_slides) ==
    Rule \o Trim(topic_slides) \o Newline \o content

\* topic_content += "---\n\n"; += topic_slides.trim(); += "\n"
AppendContent(content, topic_slides) == content \o Rule \o Trim(topic_slides) \o Newline

\* for item in items { acc += &format!("- {}\n", item.trim()) }
RECURSIVE AppendItems(_, _)
AppendItems(acc, items) ==
    IF items = <<>> THEN acc
    ELSE AppendItems(acc \o Bullet \o Trim(Head(items)) \o Newline, Tail(items))

\* str::replacen(from, to, 1)
RECURSIVE ReplaceFirst(_, _, _)
ReplaceFirst(s, from, to) ==
    IF s = <<>> THEN <<>>
    ELSE IF StartsWith(s, from)
         THEN to \o SubSeq(s, Len(from) + 1, Len(s))
         ELSE <<Head(s)>> \o ReplaceFirst(Tail(s), from, to)

\* faulty variant: only the first occurrence of each marker is replaced
UnitContent_FirstOnly(tpl, content, objectives, summary) ==
    ReplaceFirst(ReplaceFirst(ReplaceFirst(tpl, ContentMarker, content),
                              ObjectivesMarker, objectives),
                 SummaryMarker, summary)

\* template.replace(content).replace(objectives).replace(summary)
UnitContent(tpl, content, objectives, summary) ==
    Replace(Replace(Replace(tpl, ContentMarker, content),
                    ObjectivesMarker, objectives),
            SummaryMarker, summary)

-----------------------------------------------------------------------------
(* Inputs *)

DefaultTemplate ==
    <<"T","\n">> \o ContentMarker \o ObjectivesMarker \o Newline \o SummaryMarker
DefaultSlides == <<" ","s","1","\n">>
DefaultObjectives == << <<"A">> >>

\* a summary marker that appears once the objectives marker inside it is replaced
SplitMarker ==
    <<"#","[","m","o","d","m","o","d",":","s","u","m">> \o ObjectivesMarker
        \o <<"m","a","r","y","]">>

TemplateChunks == {<<"T","\n">>, ContentMarker, ObjectivesMarker, SummaryMarker, SplitMarker}

SeqsUpTo(S, n) == UNION {[1..k -> S] : k \in 0..n}

Templates == {Concat(cs) : cs \in SeqsUpTo(TemplateChunks, MaxTemplateChunks)}

SlideTexts ==
    {DefaultSlides, <<"s">> \o ObjectivesMarker, SummaryMarker \o <<"\n">>,
     ContentMarker \o <<"x"," ">>}

ObjectiveLists == {<<>>, DefaultObjectives, << <<" ">> \o SummaryMarker >>}

Defects ==
    {BadGlob, Absent(TrackPath), Absent(ModAPath), Absent(T1Path),
     Absent(TemplateAPath), Absent(SlidesT1Path), Absent(ExT1Dir)}

OldOutput == (<<"old.txt">> :> FileEntry(<<"o">>)) @@ (<<"01-basics">> :> DirEntry)

Idle ==
    /\ pc = "Idle" /\ run = 0 /\ clear_output = FALSE /\ result = "None"
    /\ track = NoTrack /\ modules = <<>> /\ i_mod = 0
    /\ units = <<>> /\ i_unit = 0 /\ i_topic = 0 /\ i_exercise = 0 /\ pending = {}
    /\ template = <<>> /\ topic_content = <<>>
    /\ topic_objectives = <<>> /\ topic_summary = <<>>
    /\ book = <<>> /\ chapter = NoChapter /\ section = NoSection
    /\ reads = {} /\ tagged = <<>>
    /\ prevOut = [valid |-> FALSE, tree |-> EmptyTree, book |-> NoBook]
    /\ outBook = NoBook

\* a sound course: any track, any state of the output directory
InitCourse ==
    /\ trackModules \in SeqsUpTo({ModARef, ModBRef}, MaxModules)
    /\ excludedTopics \in {<<>>, << <<"mod_a", "t1", "topic.toml">> >>}
    /\ defect = NoDefect
    /\ templateC = DefaultTemplate /\ slidesT5 = DefaultSlides
    /\ objectivesT5 = DefaultObjectives
    /\ \/ outExists = FALSE /\ outTree = EmptyTree
       \/ outExists = TRUE /\ outTree \in {EmptyTree, OldOutput}

\* a course with something missing or malformed
InitDefect ==
    /\ trackModules \in {<<ModARef>>, <<ModARef, ModBRef>>, <<ModBRef, ModARef>>}
    /\ excludedTopics = <<>>
    /\ defect \in Defects
    /\ templateC = DefaultTemplate /\ slidesT5 = DefaultSlides
    /\ objectivesT5 = DefaultObjectives
    /\ outExists = TRUE /\ outTree = EmptyTree

\* a course whose texts vary
InitText ==
    /\ trackModules = <<ModCRef>>
    /\ excludedTopics = <<>>
    /\ defect = NoDefect
    /\ templateC \in Templates /\ slidesT5 \in SlideTexts
    /\ objectivesT5 \in ObjectiveLists
    /\ outExists = TRUE /\ outTree = EmptyTree

Init == Idle /\ (InitCourse \/ InitDefect \/ InitText)

-----------------------------------------------------------------------------
(* render *)

Fail(e) == pc' = "Failed" /\ result' = e

Panic == pc' = "Panicked" /\ UNCHANGED result

\* a call of Track::render(TrackPath, output_dir, c)
Render(c) ==
    /\ pc \in {"Idle", "Done"}
    /\ run < MaxRuns
    /\ run' = run + 1
    /\ clear_output' = c
    /\ prevOut' = [valid |-> pc = "Done" /\ clear_output, tree |-> outTree, book |-> outBook]
    /\ pc' = "ValidateOutputDir"
    /\ result' = "None"
    /\ track' = NoTrack /\ modules' = <<>> /\ i_mod' = 0
    /\ units' = <<>> /\ i_unit' = 0 /\ i_topic' = 0 /\ i_exercise' = 0 /\ pending' = {}
    /\ template' = <<>> /\ topic_content' = <<>>
    /\ topic_objectives' = <<>> /\ topic_summary' = <<>>
    /\ book' = <<>> /\ chapter' = NoChapter /\ section' = NoSection
    /\ reads' = {} /\ tagged' = <<>>
    /\ UNCHANGED <<inputs, output>>

\* remove_dir_all + create_dir_all leave an empty directory
ClearedTree(tree) == EmptyTree

\* if clear_output { remove_dir_all; create_dir_all }; a failure is taken to
\* leave the directory as it was
ClearOutputDir ==
    /\ pc = "ValidateOutputDir"
    /\ clear_output
    /\ \/ /\ outExists' = TRUE
          /\ outTree' = ClearedTree(outTree)
          /\ outBook' = NoBook
          /\ pc' = "LoadTrack"
          /\ UNCHANGED result
       \/ Fail("Io") /\ UNCHANGED output
    /\ UNCHANGED <<inputs, loops, aggregates, builder, call, reads, tagged>>

\* else { let None = read_dir(output_dir)?.next() else { return Err(NotEmpty) } }
CheckOutputDir ==
    /\ pc = "ValidateOutputDir"
    /\ ~clear_output
    /\ IF ~outExists THEN Fail("Io")
       ELSE IF HasEntries THEN Fail("NotEmpty")
       ELSE pc' = "LoadTrack" /\ UNCHANGED result
    /\ UNCHANGED <<inputs, output, loops, aggregates, builder, call, reads, tagged>>

ReadOf(kind, at, path) == [kind |-> kind, at |-> at, path |-> path]

\* let track = Self::load(path)?; Book::builder
LoadTrack ==
    /\ pc = "LoadTrack"
    /\ reads' = reads \cup {ReadOf("track", <<0, 0, 0, 0>>, LoadPath(TrackPath, <<>>))}
    /\ IF FileExists(LoadPath(TrackPath, <<>>))
       THEN /\ track' = [path |-> LoadPath(TrackPath, <<>>), data |-> TrackFile]
            /\ book' = <<>>
            /\ pc' = "LoadModules"
            /\ UNCHANGED result
       ELSE Fail("Load") /\ UNCHANGED <<track, book>>
    /\ UNCHANGED <<inputs, output, modules, i_mod, units, i_unit, i_topic, i_exercise,
                   pending, aggregates, chapter, section, call, tagged>>

\* the path the k-th module is loaded from
ModulePath(t, k) == LoadPath(t.data.modules[k], ModuleBase(t))

\* track.load_modules()?: every module, in order, up to the first that fails
LoadModules ==
    /\ pc = "LoadModules"
    /\ LET n == Len(track.data.modules)
           missing == {k \in 1..n : ~FileExists(ModulePath(track, k))}
           tried == {k \in 1..n : \A j \in missing : k <= j}
       IN /\ reads' = reads \cup {ReadOf("module", <<k, 0, 0, 0>>, ModulePath(track, k)) :
                                     k \in tried}
          /\ IF missing = {}
             THEN /\ modules' = [k \in 1..n |->
                                    [path |-> ModulePath(track, k),
                                     data |-> ModuleFile(ModulePath(track, k))]]
                  /\ i_mod' = 1
                  /\ pc' = "ModuleLoop"
                  /\ UNCHANGED result
             ELSE Fail("Load") /\ UNCHANGED <<modules, i_mod>>
    /\ UNCHANGED <<inputs, output, track, units, i_unit, i_topic, i_exercise, pending,
                   aggregates, builder, call, tagged>>

TagOf(parent, index, tag) == [parent |-> parent, index |-> index, tag |-> tag]

\* module_tag; fs::create_dir(&module_out_dir)?; book_builder.chapter
CreateModuleDir ==
    /\ pc = "ModuleLoop"
    /\ i_mod <= Len(modules)
    /\ \/ /\ CanCreateDir(outTree, ModuleOutDir)
          /\ outTree' = CreateDir(outTree, ModuleOutDir)
          /\ tagged' = Append(tagged, TagOf(<<>>, i_mod, ModuleTag(CurModule, i_mod)))
          /\ chapter' = NewChapter(CurModule.data.name)
          /\ pc' = "LoadTopics"
          /\ UNCHANGED result
       \/ Fail("Io") /\ UNCHANGED <<outTree, tagged, chapter>>
    /\ UNCHANGED <<inputs, outExists, outBook, loops, aggregates, book, section, call, reads>>

\* the path the t-th topic of the u-th unit is loaded from
TopicPath(m, u, t) == LoadPath(m.data.units[u].topics[t], TopicBase(m))

\* module.load_topics()?: every topic of every unit, in order, up to the first that fails
LoadTopics ==
    /\ pc = "LoadTopics"
    /\ LET m == CurModule
           all == UNION {{<<u, t>> : t \in 1..Len(m.data.units[u].topics)} :
                            u \in 1..Len(m.data.units)}
           before(a, b) == a[1] < b[1] \/ (a[1] = b[1] /\ a[2] <= b[2])
           missing == {a \in all : ~FileExists(TopicPath(m, a[1], a[2]))}
           tried == {a \in all : \A b \in missing : before(a, b)}
       IN /\ reads' = reads \cup {ReadOf("topic", <<i_mod, a[1], a[2], 0>>,
                                         TopicPath(m, a[1], a[2])) : a \in tried}
          /\ IF missing = {}
             THEN /\ units' = [u \in 1..Len(m.data.units) |->
                                  [unit |-> m.data.units[u],
                                   topics |-> [t \in 1..Len(m.data.units[u].topics) |->
                                                  [path |-> TopicPath(m, u, t),
                                                   data |-> TopicFile(TopicPath(m, u, t))]]]]
                  /\ i_unit' = 1
                  /\ pc' = "UnitLoop"
                  /\ UNCHANGED result
             ELSE Fail("Load") /\ UNCHANGED <<units, i_unit>>
    /\ UNCHANGED <<inputs, output, track, modules, i_mod, i_topic, i_exercise, pending,
                   aggregates, builder, call, tagged>>

\* chapter.section; unit_tag; fs::create_dir(&unit_out_dir)?
CreateUnitDir ==
    /\ pc = "UnitLoop"
    /\ i_unit <= Len(units)
    /\ \/ /\ CanCreateDir(outTree, UnitOutDir)
          /\ outTree' = CreateDir(outTree, UnitOutDir)
          /\ tagged' = Append(tagged, TagOf(ModuleOutDir, i_unit, UnitTag(CurUnit, i_unit)))
          /\ section' = NewSection(CurUnit.name)
          /\ pc' = "CreateExerciseOutDir"
          /\ UNCHANGED result
       \/ Fail("Io") /\ UNCHANGED <<outTree, tagged, section>>
    /\ UNCHANGED <<inputs, outExists, outBook, loops, aggregates, book, chapter, call, reads>>

\* fs::create_dir(&exercise_out_dir)?
CreateExerciseOutDir ==
    /\ pc = "CreateExerciseOutDir"
    /\ \/ /\ CanCreateDir(outTree, ExerciseOutDir)
          /\ outTree' = CreateDir(outTree, ExerciseOutDir)
          /\ pc' = "ReadTemplate"
          /\ UNCHANGED result
       \/ Fail("Io") /\ UNCHANGED outTree
    /\ UNCHANGED <<inputs, outExists, outBook, loops, aggregates, builder, call, reads, tagged>>

\* let template = fs::read_to_string(..)?; the three aggregates start empty
ReadTemplate ==
    /\ pc = "ReadTemplate"
    /\ LET path == TemplatePath(CurModule, CurUnit)
       IN /\ reads' = reads \cup {ReadOf("template", <<i_mod, i_unit, 0, 0>>, path)}
          /\ IF FileExists(path)
             THEN /\ template' = FileText(path)
                  /\ topic_content' = <<>>
                  /\ topic_objectives' = <<>>
                  /\ topic_summary' = <<>>
                  /\ i_topic' = 1
                  /\ pc' = "TopicLoop"
                  /\ UNCHANGED result
             ELSE Fail("Io") /\ UNCHANGED <<aggregates, i_topic>>
    /\ UNCHANGED <<inputs, output, track, modules, i_mod, units, i_unit, i_exercise, pending,
                   builder, call, tagged>>

\* the body of "for topic in topics" up to the exercise loop
AggregateTopic ==
    /\ pc = "TopicLoop"
    /\ i_topic <= Len(CurTopics)
    /\ LET path == SlidesPath(CurTopic)
       IN /\ reads' = reads \cup {ReadOf("slides", <<i_mod, i_unit, i_topic, 0>>, path)}
          /\ IF FileExists(path)
             THEN /\ topic_content' = AppendContent(topic_content, FileText(path))
                  /\ topic_objectives' = AppendItems(topic_objectives, CurTopic.data.objectives)
                  /\ topic_summary' = AppendItems(topic_summary, CurTopic.data.summary)
                  /\ i_exercise' = 1
                  /\ pc' = "ExerciseLoop"
                  /\ UNCHANGED result
             ELSE /\ Fail("Io")
                  /\ UNCHANGED <<topic_content, topic_objectives, topic_summary, i_exercise>>
    /\ UNCHANGED <<inputs, output, track, modules, i_mod, units, i_unit, i_topic, pending,
                   template, builder, call, tagged>>

\* the files of the exercise directory that the glob set matches
MatchedFiles(t, e) ==
    {f \in DirFiles(ExerciseDir(t, e)) : GlobSetMatches(ExerciseGlobSet(t, e), f)}

\* section.subsection; get_dir_content(..).unwrap(); exercise_tag; the glob set
SelectFiles ==
    /\ pc = "ExerciseLoop"
    /\ i_exercise <= Len(CurTopic.data.exercises)
    /\ LET t == CurTopic
           e == CurExercise
           at == <<i_mod, i_unit, i_topic, i_exercise>>
           globset == ExerciseGlobSet(t, e)
       IN /\ section' = AddSubsection(section, e.name, DescriptionPath(t, e))
          /\ IF ~DirExists(ExerciseDir(t, e))
             THEN /\ reads' = reads \cup {ReadOf("exercise", at, ExerciseDir(t, e))}
                  /\ Panic
                  /\ UNCHANGED <<pending, tagged>>
             ELSE /\ reads' = reads \cup {ReadOf("exercise", at, ExerciseDir(t, e))}
                                    \cup {ReadOf("include", at, globset[k]) :
                                             k \in 1..Len(globset)}
                                    \cup {ReadOf("description", at, DescriptionPath(t, e))}
                  /\ tagged' = Append(tagged, TagOf(ExerciseOutDir, i_exercise,
                                                    ExerciseTag(e, i_exercise)))
                  /\ IF \E k \in 1..Len(globset) : ~GlobValid(globset[k])
                     THEN Panic /\ UNCHANGED pending
                     ELSE /\ pending' = MatchedFiles(t, e)
                          /\ pc' = "CopyLoop"
                          /\ UNCHANGED result
    /\ UNCHANGED <<inputs, output, track, modules, i_mod, units, i_unit, i_topic, i_exercise,
                   aggregates, book, chapter, call>>

\* one round of "for included_file in ...": create_dir_all(dest.parent())?; fs::copy?
CopyFile ==
    /\ pc = "CopyLoop"
    /\ \E file \in pending :
          \/ /\ CanCreateDirAll(outTree, Parent(Dest(file)))
             /\ outTree' = WriteFile(CreateDirAll(outTree, Parent(Dest(file))),
                                     Dest(file), FileText(file))
             /\ pending' = pending \ {file}
             /\ UNCHANGED <<pc, result>>
          \/ Fail("Io") /\ UNCHANGED <<outTree, pending>>
    /\ UNCHANGED <<inputs, outExists, outBook, track, modules, i_mod, units, i_unit, i_topic,
                   i_exercise, aggregates, builder, call, reads, tagged>>

\* the end of "for included_file in ..."
NextExercise ==
    /\ pc = "CopyLoop"
    /\ pending = {}
    /\ i_exercise' = i_exercise + 1
    /\ pc' = "ExerciseLoop"
    /\ UNCHANGED <<inputs, output, result, track, modules, i_mod, units, i_unit, i_topic,
                   pending, aggregates, builder, call, reads, tagged>>

\* faulty variant: the topic loop is left after the first topic's exercises
NextTopic_Break ==
    /\ pc = "ExerciseLoop"
    /\ i_exercise > Len(CurTopic.data.exercises)
    /\ i_topic' = i_topic + 1
    /\ pc' = "UnitLoop"
    /\ i_unit' = i_unit + 1
    /\ UNCHANGED <<inputs, output, result, track, modules, i_mod, units, i_exercise,
                   pending, aggregates, builder, call, reads, tagged>>

\* the end of "for (exercise, i_exercise) in ..."
NextTopic ==
    /\ pc = "ExerciseLoop"
    /\ i_exercise > Len(CurTopic.data.exercises)
    /\ i_topic' = i_topic + 1
    /\ pc' = "TopicLoop"
    /\ UNCHANGED <<inputs, output, result, track, modules, i_mod, units, i_unit, i_exercise,
                   pending, aggregates, builder, call, reads, tagged>>

\* section.add(); unit_content; File::create(slides.md)?; write!?
WriteSlides ==
    /\ pc = "TopicLoop"
    /\ i_topic > Len(CurTopics)
    /\ chapter' = AddSection(chapter, section)
    /\ \/ /\ outTree' = WriteFile(outTree, Join(UnitOutDir, <<"slides.md">>),
                                  UnitContent(template, topic_content, topic_objectives,
                                              topic_summary))
          /\ i_unit' = i_unit + 1
          /\ pc' = "UnitLoop"
          /\ UNCHANGED result
       \/ Fail("Io") /\ UNCHANGED <<outTree, i_unit>>
    /\ UNCHANGED <<inputs, outExists, outBook, track, modules, i_mod, units, i_topic,
                   i_exercise, pending, aggregates, book, section, call, reads, tagged>>

\* chapter.add()
RegisterChapter ==
    /\ pc = "UnitLoop"
    /\ i_unit > Len(units)
    /\ book' = AddChapter(book, chapter)
    /\ i_mod' = i_mod + 1
    /\ pc' = "ModuleLoop"
    /\ UNCHANGED <<inputs, output, result, track, modules, units, i_unit, i_topic, i_exercise,
                   pending, aggregates, chapter, section, call, reads, tagged>>

\* book_builder.build(); book.render(&output_dir)?; Ok(())
RenderBook ==
    /\ pc = "ModuleLoop"
    /\ i_mod > Len(modules)
    /\ \/ /\ outBook' = RenderedBook(book)
          /\ pc' = "Done"
          /\ result' = "Ok"
       \/ Fail("Io") /\ UNCHANGED outBook
    /\ UNCHANGED <<inputs, outExists, outTree, loops, aggregates, builder, call, reads, tagged>>

Next ==
    \/ \E c \in BOOLEAN : Render(c)
    \/ ClearOutputDir
    \/ CheckOutputDir
    \/ LoadTrack
    \/ LoadModules
    \/ CreateModuleDir
    \/ LoadTopics
    \/ CreateUnitDir
    \/ CreateExerciseOutDir
    \/ ReadTemplate
    \/ AggregateTopic
    \/ SelectFiles
    \/ CopyFile
    \/ NextExercise
    \/ NextTopic
    \/ WriteSlides
    \/ RegisterChapter
    \/ RenderBook

Spec == Init /\ [][Next]_vars

-----------------------------------------------------------------------------
(* Reference values for the properties, computed from the inputs alone:     *)
(* what the track declares and where each declaring file lies.             *)

DeclModulePath(m) == Join(Parent(TrackPath), trackModules[m])
DeclModule(m) == ModuleFile(DeclModulePath(m))
DeclUnit(m, u) == DeclModule(m).units[u]
DeclTopicPath(m, u, t) == Join(Parent(DeclModulePath(m)), DeclUnit(m, u).topics[t])
DeclTopic(m, u, t) == TopicFile(DeclTopicPath(m, u, t))
DeclExercise(m, u, t, e) == DeclTopic(m, u, t).exercises[e]
DeclExerciseDir(m, u, t, e) ==
    Join(Parent(DeclTopicPath(m, u, t)), DeclExercise(m, u, t, e).path)

DeclUnits == UNION {{<<m, u>> : u \in 1..Len(DeclModule(m).units)} : m \in 1..Len(trackModules)}
DeclTopics == UNION {{<<a[1], a[2], t>> : t \in 1..Len(DeclUnit(a[1], a[2]).topics)} : a \in DeclUnits}
DeclExercises ==
    UNION {{<<a[1], a[2], a[3], e>> : e \in 1..Len(DeclTopic(a[1], a[2], a[3]).exercises)} :
              a \in DeclTopics}

\* <output_dir>/<NN-module>/<NN-unit>
UnitOutput(m, u) ==
    <<to_numbered_tag(DeclModule(m).name, m), to_numbered_tag(DeclUnit(m, u).name, u)>>

\* the output directory the build copies exercise e of topic t into
ExerciseOutput(m, u, t, e) ==
    UnitOutput(m, u) \o <<"exercises", to_numbered_tag(DeclExercise(m, u, t, e).name, e)>>

\* the files below a directory of the output tree, relative to it
FilesBelow(dir) ==
    {StripPrefix(p, dir) : p \in {q \in DOMAIN outTree :
                                     /\ Len(dir) < Len(q)
                                     /\ IsPrefix(dir, q)
                                     /\ outTree[q].kind = "file"}}

\* the files of an exercise directory that match one of its include globs
DeclMatched(m, u, t, e) ==
    LET dir == DeclExerciseDir(m, u, t, e)
        inc == DeclExercise(m, u, t, e).includes
    IN {StripPrefix(f, dir) :
           f \in {g \in SrcFiles : /\ Len(dir) < Len(g)
                                   /\ IsPrefix(dir, g)
                                   /\ \E k \in 1..Len(inc) : GlobMatches(Join(dir, inc[k]), g)}}

-----------------------------------------------------------------------------
(* C1 *)

\* C1: a call with clear_output=false on an output directory that has an entry fails
\* with NotEmpty in its first step, leaving the directory as it was, the track
\* unloaded, no source path read and no tag or directory made.
C1_NotEmptyBeforeAnyIO ==
    [][(/\ pc = "ValidateOutputDir"
        /\ ~clear_output
        /\ outExists
        /\ (outTree # EmptyTree \/ outBook.present))
       => (/\ pc' = "Failed"
           /\ result' = "NotEmpty"
           /\ outTree' = outTree /\ outBook' = outBook /\ outExists' = outExists
           /\ track' = NoTrack /\ reads' = {} /\ tagged' = <<>>)]_vars

C1_Witness ==
    /\ pc = "Failed" /\ result = "NotEmpty" /\ ~clear_output
    /\ outTree # EmptyTree
    /\ reads = {} /\ track = NoTrack

-----------------------------------------------------------------------------
(* C2 *)

\* C2: among the tags given under one output parent directory, a later one differs
\* from every earlier one and carries a larger index; the first index is 1.
C2_TagsUniqueAmongSiblings ==
    \A i, j \in 1..Len(tagged) :
        (i < j /\ tagged[i].parent = tagged[j].parent)
            => (tagged[i].tag # tagged[j].tag /\ tagged[i].index < tagged[j].index)

-----------------------------------------------------------------------------
(* C3 *)

\* C3: after a successful build the files of every exercise's output directory are
\* exactly the files of its source directory that match an include glob, at the
\* same relative paths.
C3_ExactlyTheMatchedFiles ==
    pc = "Done" =>
        \A a \in DeclExercises :
            FilesBelow(ExerciseOutput(a[1], a[2], a[3], a[4]))
                = DeclMatched(a[1], a[2], a[3], a[4])

-----------------------------------------------------------------------------
(* Reference texts of a unit *)

DeclTemplate(m, u) == FileText(Join(Parent(DeclModulePath(m)), DeclUnit(m, u).template))
DeclSlides(m, u, t) ==
    FileText(Join(Parent(DeclTopicPath(m, u, t)), DeclTopic(m, u, t).content))

Bulleted(items) == Concat([k \in 1..Len(items) |-> Bullet \o Trim(items[k]) \o Newline])

\* the aggregates of the first n topics of a unit
ExpContent(m, u, n) == Concat([t \in 1..n |-> Rule \o Trim(DeclSlides(m, u, t)) \o Newline])
ExpObjectives(m, u, n) == Concat([t \in 1..n |-> Bulleted(DeclTopic(m, u, t).objectives)])
ExpSummary(m, u, n) == Concat([t \in 1..n |-> Bulleted(DeclTopic(m, u, t).summary)])

NumTopics(m, u) == Len(DeclUnit(m, u).topics)

\* the slides.md written for a unit
SlidesDoc(m, u) == outTree[UnitOutput(m, u) \o <<"slides.md">>].data

\* the blocks occur in the document one after the other, in this order
RECURSIVE ContainsInOrder(_, _)
ContainsInOrder(doc, blocks) ==
    IF blocks = <<>> THEN TRUE
    ELSE \E i \in 1..(Len(doc) - Len(Head(blocks)) + 1) :
             /\ SubSeq(doc, i, i + Len(Head(blocks)) - 1) = Head(blocks)
             /\ ContainsInOrder(SubSeq(doc, i + Len(Head(blocks)), Len(doc)), Tail(blocks))

\* a rule and the trimmed slide content, per topic
TopicBlocks(m, u) == [t \in 1..NumTopics(m, u) |-> Rule \o Trim(DeclSlides(m, u, t))]

\* the template with every marker occurrence replaced at once, the rest verbatim
RECURSIVE SubstAll(_, _, _, _)
SubstAll(s, content, objectives, summary) ==
    IF s = <<>> THEN <<>>
    ELSE IF StartsWith(s, ContentMarker)
         THEN content \o SubstAll(SubSeq(s, Len(ContentMarker) + 1, Len(s)),
                                  content, objectives, summary)
    ELSE IF StartsWith(s, ObjectivesMarker)
         THEN objectives \o SubstAll(SubSeq(s, Len(ObjectivesMarker) + 1, Len(s)),
                                     content, objectives, summary)
    ELSE IF StartsWith(s, SummaryMarker)
         THEN summary \o SubstAll(SubSeq(s, Len(SummaryMarker) + 1, Len(s)),
                                  content, objectives, summary)
    ELSE <<Head(s)>> \o SubstAll(Tail(s), content, objectives, summary)

Occurrences(s, p) == Cardinality({i \in 1..Len(s) : StartsWith(SubSeq(s, i, Len(s)), p)})

\* removing markers from the template joins no text into a later marker
NoJoinedMarker(tpl) ==
    LET t1 == Replace(tpl, ContentMarker, <<>>)
        t2 == Replace(t1, ObjectivesMarker, <<>>)
    IN /\ Occurrences(t1, ObjectivesMarker) = Occurrences(tpl, ObjectivesMarker)
       /\ Occurrences(t1, SummaryMarker) = Occurrences(tpl, SummaryMarker)
       /\ Occurrences(t2, SummaryMarker) = Occurrences(tpl, SummaryMarker)

\* no aggregate holds the text of a marker substituted after it
NoMarkerInAggregates(m, u) ==
    LET n == NumTopics(m, u)
    IN /\ ~Contains(ExpContent(m, u, n), ObjectivesMarker)
       /\ ~Contains(ExpContent(m, u, n), SummaryMarker)
       /\ ~Contains(ExpObjectives(m, u, n), SummaryMarker)

-----------------------------------------------------------------------------
(* C4 *)

\* C4 as claimed: after a successful build every unit's slides.md holds, for each
\* topic in order, a rule followed by the topic's trimmed slide content, whatever
\* the template and the texts are.
C4_ContentAlwaysKept ==
    pc = "Done" =>
        \A a \in DeclUnits : ContainsInOrder(SlidesDoc(a[1], a[2]), TopicBlocks(a[1], a[2]))

\* C4 as amended: the same, for every unit whose template holds the content marker
\* line and whose topics' trimmed slide contents hold neither the objectives nor
\* the summary marker.
C4_ContentKeptUnderMarker ==
    pc = "Done" =>
        \A a \in DeclUnits :
            (/\ Contains(DeclTemplate(a[1], a[2]), ContentMarker)
             /\ \A t \in 1..NumTopics(a[1], a[2]) :
                   /\ ~Contains(Trim(DeclSlides(a[1], a[2], t)), ObjectivesMarker)
                   /\ ~Contains(Trim(DeclSlides(a[1], a[2], t)), SummaryMarker))
            => ContainsInOrder(SlidesDoc(a[1], a[2]), TopicBlocks(a[1], a[2]))

C4_Witness ==
    /\ pc = "Done"
    /\ trackModules = <<ModCRef>>
    /\ templateC = SummaryMarker \o ContentMarker
    /\ slidesT5 = ContentMarker \o <<"x", " ">>
    /\ ContainsInOrder(SlidesDoc(1, 1), TopicBlocks(1, 1))

-----------------------------------------------------------------------------
(* C5 *)

\* C5: a successful call with clear_output=true that follows a successful call
\* with clear_output=true leaves the same output tree and book, and nothing of
\* what the directory held before survives a clearing call.
C5_RebuildIdentical ==
    (pc = "Done" /\ clear_output) =>
        /\ <<"old.txt">> \notin DOMAIN outTree
        /\ prevOut.valid => (outTree = prevOut.tree /\ outBook = prevOut.book)

C5_Witness ==
    /\ pc = "Done" /\ clear_output /\ prevOut.valid
    /\ trackModules = <<ModARef, ModBRef>>
    /\ <<"01-basics", "01-intro", "exercises", "01-hello", "sub", "notes.txt">> \in DOMAIN outTree
    /\ outTree = prevOut.tree

-----------------------------------------------------------------------------
(* C6 *)

\* C6: a build of a track that declares excluded topics does not end Done having
\* loaded and aggregated one of them.
C6_ExcludedNotSilentlyIgnored ==
    pc = "Done" =>
        \A k \in 1..Len(excludedTopics) :
            \A r \in reads :
                r.kind = "topic" => r.path # Join(Parent(TrackPath), excludedTopics[k])

-----------------------------------------------------------------------------
(* C7 *)

\* topics of the current unit aggregated so far
AggregatedCount == IF pc = "TopicLoop" THEN i_topic - 1 ELSE i_topic

\* C7 as claimed: while a unit is processed, an exercise file is in its output
\* only once all of the unit's topics have been aggregated.
C7_CopyAfterAllTopics ==
    (pc \in {"TopicLoop", "ExerciseLoop", "CopyLoop"} /\ FilesBelow(ExerciseOutDir) # {})
        => AggregatedCount = Len(CurTopics)

StepOrder ==
    { <<"Idle", "ValidateOutputDir">>, <<"Done", "ValidateOutputDir">>,
      <<"ValidateOutputDir", "LoadTrack">>, <<"LoadTrack", "LoadModules">>,
      <<"LoadModules", "ModuleLoop">>, <<"ModuleLoop", "LoadTopics">>,
      <<"LoadTopics", "UnitLoop">>, <<"UnitLoop", "CreateExerciseOutDir">>,
      <<"CreateExerciseOutDir", "ReadTemplate">>, <<"ReadTemplate", "TopicLoop">>,
      <<"TopicLoop", "ExerciseLoop">>, <<"ExerciseLoop", "CopyLoop">>,
      <<"CopyLoop", "ExerciseLoop">>, <<"ExerciseLoop", "TopicLoop">>,
      <<"TopicLoop", "UnitLoop">>, <<"UnitLoop", "ModuleLoop">>,
      <<"ModuleLoop", "Done">> }

\* C7 as amended: the steps follow the order of the code: validation, the track,
\* its modules, then per module its directory and topics, per unit its directories
\* and template, per topic its aggregation and then the copying of its exercises,
\* then the slides, the chapter, and at the end the book.  An exercise file is
\* copied when exactly the topics up to its own are aggregated and the unit's
\* slides are not yet written; the slides are written when all topics are
\* aggregated and nothing is left to copy; the book is rendered when every module
\* has its chapter; the output changes only after the validation step.
C7_CodeOrder ==
    [][/\ pc' # pc => (<<pc, pc'>> \in StepOrder \/ pc' \in {"Failed", "Panicked"})
       /\ (pc = "CopyLoop" /\ outTree' # outTree) =>
              /\ topic_content = ExpContent(i_mod, i_unit, i_topic)
              /\ i_topic <= Len(CurTopics)
              /\ Join(UnitOutDir, <<"slides.md">>) \notin DOMAIN outTree
       /\ (pc = "TopicLoop" /\ pc' = "UnitLoop") =>
              /\ topic_content = ExpContent(i_mod, i_unit, Len(CurTopics))
              /\ pending = {}
              /\ Join(UnitOutDir, <<"slides.md">>) \in DOMAIN outTree'
       /\ pc' = "Done" => Len(book) = Len(modules)
       /\ outTree' # outTree =>
              pc \in {"ValidateOutputDir", "ModuleLoop", "UnitLoop", "CreateExerciseOutDir",
                      "CopyLoop", "TopicLoop"}]_vars

C7_Witness ==
    /\ pc = "CopyLoop"
    /\ i_topic = 1 /\ Len(CurTopics) = 2
    /\ FilesBelow(ExerciseOutDir) # {}
    /\ topic_content = ExpContent(i_mod, i_unit, 1)

-----------------------------------------------------------------------------
(* C8 *)

\* C8: a call that ends without success ends Failed, with its first error as the
\* result returned to the caller.
C8_FailureReturnsError ==
    (pc \notin {"Idle", "Done"} /\ ~ENABLED Next)
        => (pc = "Failed" /\ result \in {"NotEmpty", "Io", "Load"})

-----------------------------------------------------------------------------
(* C9 *)

\* the path a reference resolves to against the directory of its declaring file
ResolvedAtDeclaringFile(r) ==
    LET m == r.at[1]
        u == r.at[2]
        t == r.at[3]
        e == r.at[4]
    IN CASE r.kind = "track" -> r.path = TrackPath
         [] r.kind = "module" -> r.path = DeclModulePath(m)
         [] r.kind = "topic" -> r.path = DeclTopicPath(m, u, t)
         [] r.kind = "template" ->
              r.path = Join(Parent(DeclModulePath(m)), DeclUnit(m, u).template)
         [] r.kind = "slides" ->
              r.path = Join(Parent(DeclTopicPath(m, u, t)), DeclTopic(m, u, t).content)
         [] r.kind = "exercise" -> r.path = DeclExerciseDir(m, u, t, e)
         [] r.kind = "description" ->
              r.path = Join(DeclExerciseDir(m, u, t, e), DeclExercise(m, u, t, e).description)
         [] r.kind = "include" ->
              \E k \in 1..Len(DeclExercise(m, u, t, e).includes) :
                  r.path = Join(DeclExerciseDir(m, u, t, e), DeclExercise(m, u, t, e).includes[k])

\* C9: every path the build dereferences is the declared reference joined to the
\* directory of the file that declares it.
C9_ResolvedAgainstDeclaringFile == \A r \in reads : ResolvedAtDeclaringFile(r)

C9_Witness ==
    /\ pc = "Done"
    /\ \E r \in reads : r.kind = "include" /\ r.at = <<2, 1, 1, 2>>
                        /\ r.path = <<"course", "mod_b", "t4", "ex2", "a.txt">>
    /\ \E r \in reads : r.kind = "template" /\ r.at = <<1, 2, 0, 0>>
                        /\ r.path = <<"course", "mod_a", "tpl", "alt.md">>

-----------------------------------------------------------------------------
(* C10 *)

\* C10 as claimed: every unit's document is its template with every marker
\* occurrence replaced by the unit's own aggregate and all other text verbatim.
C10_MarkersReplacedAtOnce ==
    pc = "Done" =>
        \A a \in DeclUnits :
            LET n == NumTopics(a[1], a[2])
            IN SlidesDoc(a[1], a[2]) =
                   SubstAll(DeclTemplate(a[1], a[2]), ExpContent(a[1], a[2], n),
                            ExpObjectives(a[1], a[2], n), ExpSummary(a[1], a[2], n))

\* C10 as amended: the same, for every unit none of whose aggregates holds a marker
\* substituted after it and whose template joins no text into a later marker when
\* markers are removed.
C10_MarkersReplacedWhenDisjoint ==
    pc = "Done" =>
        \A a \in DeclUnits :
            LET n == NumTopics(a[1], a[2])
            IN (NoMarkerInAggregates(a[1], a[2]) /\ NoJoinedMarker(DeclTemplate(a[1], a[2])))
               => SlidesDoc(a[1], a[2]) =
                      SubstAll(DeclTemplate(a[1], a[2]), ExpContent(a[1], a[2], n),
                               ExpObjectives(a[1], a[2], n), ExpSummary(a[1], a[2], n))

C10_Witness ==
    /\ pc = "Done"
    /\ trackModules = <<ModCRef>>
    /\ templateC = ObjectivesMarker \o ObjectivesMarker
    /\ objectivesT5 = DefaultObjectives
    /\ NoMarkerInAggregates(1, 1)
    /\ SlidesDoc(1, 1) = <<"-"," ","A","\n","-"," ","A","\n">>

====
